---- MODULE Spec2Model ----
(***************************************************************************)
(* Model of the finance core of FinReport Pro (utils/finance):             *)
(* calculateStatements, performBankReconciliation and getTrendData, and of *)
(* the App component that imports ledger rows and requests an analysis.    *)
(* Amounts are integers (whole currency units); strings are TLA+ strings.  *)
(* An optional field of a record (bookEntry?, statementEntry?) is a        *)
(* sequence of length 0 or 1.                                              *)
(***************************************************************************)
EXTENDS Integers, Sequences, FiniteSets, TLC

VARIABLES pc,                  \* position of the function under execution
          bookEntries,         \* performBankReconciliation: first parameter
          statementEntries,    \* performBankReconciliation: second parameter
          matches,             \* performBankReconciliation: const matches
          matchedStatementIds, \* performBankReconciliation: const matchedStatementIds
          bi,                  \* number of book entries the first forEach has visited
          si,                  \* number of statement entries the second forEach has visited
          transactions,        \* parameter of calculateStatements and of getTrendData
          statements,          \* value returned by calculateStatements
          trendData,           \* value returned by getTrendData
          tz,                  \* UTC offset (hours) of the host's local time zone
          callee,              \* the function under execution
          calls,               \* number of invocations of the function so far
          previous,            \* value returned by the invocation before this one
          csvHeaders,          \* App: useState csvHeaders
          csvRows,             \* App: useState csvRows
          mappings,            \* App: useState mappings
          isAnalyzing,         \* App: useState isAnalyzing
          aiAnalysis,          \* App: useState aiAnalysis (null is <<>>)
          requests             \* App: getFinancialAnalysis calls not yet settled

reconVars == <<bookEntries, statementEntries, matches, matchedStatementIds, bi, si>>
ledgerVars == <<transactions, statements, trendData, tz>>
callVars == <<callee, calls, previous>>
appVars == <<csvHeaders, csvRows, mappings, isAnalyzing, aiAnalysis, requests>>
vars == <<pc, reconVars, ledgerVars, callVars, appVars>>

\* a first invocation: nothing was returned before
FirstCall ==
  /\ calls = 1
  /\ previous = <<>>

\* App: the import and analysis state as useState constructs it
AppIdle ==
  /\ csvHeaders = <<>>
  /\ csvRows = <<>>
  /\ mappings = <<>>
  /\ isAnalyzing = FALSE
  /\ aiAnalysis = <<>>
  /\ requests = {}

----------------------------------------------------------------------------
(* Bounds of the explored inputs *)

MaxBook == 3
MaxSt == 3
MaxTx == 3
MaxTrendTx == 3
MaxOrderTx == 3

ReconDates == {"2023-10-05", "2023-10-22"}
ReconAmounts == {2000}

----------------------------------------------------------------------------
(* types.ts *)

DEBIT == "Debit"
CREDIT == "Credit"
TransactionType == {DEBIT, CREDIT}

ASSET == "Asset"
LIABILITY == "Liability"
EQUITY == "Equity"
REVENUE == "Revenue"
EXPENSE == "Expense"
AccountCategory == {ASSET, LIABILITY, EQUITY, REVENUE, EXPENSE}

Transaction(id, date, description, accountName, category, amount, type) ==
  [id |-> id, date |-> date, description |-> description,
   accountName |-> accountName, category |-> category,
   amount |-> amount, type |-> type]

BankStatementItem(id, date, amount) ==
  [id |-> id, date |-> date, amount |-> amount]

ReconMatch(bookEntry, statementEntry, status) ==
  [bookEntry |-> bookEntry, statementEntry |-> statementEntry, status |-> status]

ReconStatus == {"matched", "missing_in_statement", "missing_in_book", "amount_mismatch"}

----------------------------------------------------------------------------
(* calculateStatements *)

StatementItem(label, amount) == [label |-> label, amount |-> amount]

\* Account names of the explored ledgers and, for each, the strings of
\* cashAccounts that String.prototype.includes finds in it.
AccountNames ==
  {"Cash", "Bank Fees", "Equipment", "Loan Payable", "Common Stock", "Sales Revenue",
   "Rent Expense"}

Includes(name, sub) == <<name, sub>> \in {<<"Cash", "Cash">>, <<"Bank Fees", "Bank">>}

\* const cashAccounts = ['Cash', 'Bank', 'Petty Cash']
cashAccounts == <<"Cash", "Bank", "Petty Cash">>

\* cashAccounts.some(acc => name.includes(acc))
IsCashAccount(name) == \E k \in 1..Len(cashAccounts) : Includes(name, cashAccounts[k])

\* items.reduce((s, i) => s + i.amount, 0)
RECURSIVE SumAmounts(_)
SumAmounts(items) ==
  IF items = <<>> THEN 0
  ELSE SumAmounts(SubSeq(items, 1, Len(items) - 1)) + items[Len(items)].amount

\* position of the entry of accountMap whose key is name; 0 if there is none
AccountIndex(accountMap, name) ==
  LET hits == {k \in 1..Len(accountMap) : accountMap[k].accountName = name} IN
    IF hits = {} THEN 0 ELSE CHOOSE k \in hits : TRUE

\* variant: the category of the latest transaction of the account
AccountStep_LastCategory(accountMap, tx) ==
  LET k == AccountIndex(accountMap, tx.accountName)
      current == IF k # 0 THEN [accountMap[k] EXCEPT !.category = tx.category]
                 ELSE [accountName |-> tx.accountName, category |-> tx.category,
                       debit |-> 0, credit |-> 0]
      updated == IF tx.type = DEBIT
                 THEN [current EXCEPT !.debit = @ + tx.amount]
                 ELSE [current EXCEPT !.credit = @ + tx.amount]
  IN IF k # 0 THEN [accountMap EXCEPT ![k] = updated]
     ELSE Append(accountMap, updated)

\* variant: the totals restart when the category of the account changes
AccountStep_ResetOnConflict(accountMap, tx) ==
  LET k == AccountIndex(accountMap, tx.accountName)
      current == IF k # 0 /\ accountMap[k].category = tx.category THEN accountMap[k]
                 ELSE [accountName |-> tx.accountName, category |-> tx.category,
                       debit |-> 0, credit |-> 0]
      updated == IF tx.type = DEBIT
                 THEN [current EXCEPT !.debit = @ + tx.amount]
                 ELSE [current EXCEPT !.credit = @ + tx.amount]
  IN IF k # 0 THEN [accountMap EXCEPT ![k] = updated]
     ELSE Append(accountMap, updated)

\* body of the first transactions.forEach: accountMap after one transaction.
\* The Map is a sequence of entries in insertion order; set() on a present key
\* keeps the entry's position.
AccountStep(accountMap, tx) ==
  LET k == AccountIndex(accountMap, tx.accountName)
      current == IF k # 0 THEN accountMap[k]
                 ELSE [accountName |-> tx.accountName, category |-> tx.category,
                       debit |-> 0, credit |-> 0]
      updated == IF tx.type = DEBIT
                 THEN [current EXCEPT !.debit = @ + tx.amount]
                 ELSE [current EXCEPT !.credit = @ + tx.amount]
  IN IF k # 0 THEN [accountMap EXCEPT ![k] = updated]
     ELSE Append(accountMap, updated)

RECURSIVE AccountLoop(_, _, _)
AccountLoop(accountMap, txs, i) ==
  IF i > Len(txs) THEN accountMap
  ELSE AccountLoop(AccountStep(accountMap, txs[i]), txs, i + 1)

\* 1. Trial Balance
TrialBalance(txs) == AccountLoop(<<>>, txs, 1)

RowsOf(trialBalance, category) ==
  LET Test(i) == i.category = category IN SelectSeq(trialBalance, Test)

\* variant: the credit-normal sign
DebitNormalItems_Swapped(trialBalance, category) ==
  LET rows == RowsOf(trialBalance, category) IN
    [k \in 1..Len(rows) |-> StatementItem(rows[k].accountName, rows[k].credit - rows[k].debit)]

\* rows of a debit-normal category: amount = debit - credit
DebitNormalItems(trialBalance, category) ==
  LET rows == RowsOf(trialBalance, category) IN
    [k \in 1..Len(rows) |-> StatementItem(rows[k].accountName, rows[k].debit - rows[k].credit)]

\* variant: the debit-normal sign
CreditNormalItems_Swapped(trialBalance, category) ==
  LET rows == RowsOf(trialBalance, category) IN
    [k \in 1..Len(rows) |-> StatementItem(rows[k].accountName, rows[k].debit - rows[k].credit)]

\* rows of a credit-normal category: amount = credit - debit
CreditNormalItems(trialBalance, category) ==
  LET rows == RowsOf(trialBalance, category) IN
    [k \in 1..Len(rows) |-> StatementItem(rows[k].accountName, rows[k].credit - rows[k].debit)]

EquityThreshold == 50000
RevenueBudget == 65000
ExpenseBudget == 15000

\* variant: the threshold itself counts as exceeding
EquityChangeRow_AtLeast(item) ==
  [accountName |-> item.label,
   openingBalance |-> IF item.amount >= EquityThreshold THEN EquityThreshold ELSE 0,
   additions |-> IF item.amount >= EquityThreshold THEN item.amount - EquityThreshold
                 ELSE item.amount,
   netIncome |-> 0,
   withdrawals |-> 0,
   closingBalance |-> item.amount]
\* variant: the additions are the whole amount even above the threshold
EquityChangeRow_WholeAdditions(item) ==
  [accountName |-> item.label,
   openingBalance |-> IF item.amount > EquityThreshold THEN EquityThreshold ELSE 0,
   additions |-> item.amount,
   netIncome |-> 0,
   withdrawals |-> 0,
   closingBalance |-> item.amount]

\* 4. Statement of Changes in Equity: row of one raw equity item
EquityChangeRow(item) ==
  [accountName |-> item.label,
   openingBalance |-> IF item.amount > EquityThreshold THEN EquityThreshold ELSE 0,
   additions |-> IF item.amount > EquityThreshold THEN item.amount - EquityThreshold
                 ELSE item.amount,
   netIncome |-> 0,
   withdrawals |-> 0,
   closingBalance |-> item.amount]

RetainedEarningsRow(netInc) ==
  [accountName |-> "Retained Earnings", openingBalance |-> 0, additions |-> 0,
   netIncome |-> netInc, withdrawals |-> 0, closingBalance |-> netInc]

\* variant: the rows are taken from the balance-sheet equity rows
EquityChanges_WithEarnings(rawEquityItems, netInc) ==
  LET items == Append(rawEquityItems, StatementItem("Current Period Earnings", netInc)) IN
    Append([k \in 1..Len(items) |-> EquityChangeRow(items[k])], RetainedEarningsRow(netInc))

EquityChanges(rawEquityItems, netInc) ==
  Append([k \in 1..Len(rawEquityItems) |-> EquityChangeRow(rawEquityItems[k])],
         RetainedEarningsRow(netInc))
\* variant: an Asset-category transaction goes to investing whatever its account
CashFlowStep_AssetInvests(cf, tx) ==
  LET amt == IF tx.type = DEBIT THEN tx.amount ELSE 0 - tx.amount
      item == StatementItem(tx.description, amt)
  IN IF tx.category = REVENUE \/ tx.category = EXPENSE
       THEN [cf EXCEPT !.op = Append(@, item)]
     ELSE IF tx.category = ASSET
       THEN [cf EXCEPT !.inv = Append(@, item)]
     ELSE IF tx.category = LIABILITY \/ tx.category = EQUITY
       THEN [cf EXCEPT !.fin = Append(@, item)]
     ELSE cf

\* 5. Cash Flow: body of the forEach over the cash-account transactions;
\* cf is the triple of op, inv and fin
CashFlowStep(cf, tx) ==
  LET amt == IF tx.type = DEBIT THEN tx.amount ELSE 0 - tx.amount
      item == StatementItem(tx.description, amt)
  IN IF tx.category = REVENUE \/ tx.category = EXPENSE
       THEN [cf EXCEPT !.op = Append(@, item)]
     ELSE IF tx.category = ASSET /\ ~IsCashAccount(tx.accountName)
       THEN [cf EXCEPT !.inv = Append(@, item)]
     ELSE IF tx.category = LIABILITY \/ tx.category = EQUITY
       THEN [cf EXCEPT !.fin = Append(@, item)]
     ELSE cf

RECURSIVE CashFlowLoop(_, _, _)
CashFlowLoop(cf, txs, i) ==
  IF i > Len(txs) THEN cf
  ELSE CashFlowLoop(CashFlowStep(cf, txs[i]), txs, i + 1)

CashFlowBuckets(txs) ==
  LET Test(tx) == IsCashAccount(tx.accountName) IN
    CashFlowLoop([op |-> <<>>, inv |-> <<>>, fin |-> <<>>], SelectSeq(txs, Test), 1)
\* variant: note 4 attaches every asset row
Notes_AllAssets(revenueItems, assetItems) ==
  LET IsCash(a) == IsCashAccount(a.label)
  IN << [noteNumber |-> 1, title |-> "Basis of Preparation", data |-> <<>>],
        [noteNumber |-> 2, title |-> "Revenue Recognition", data |-> <<revenueItems>>],
        [noteNumber |-> 3, title |-> "Cash and Cash Equivalents",
         data |-> <<SelectSeq(assetItems, IsCash)>>],
        [noteNumber |-> 4, title |-> "Property, Plant and Equipment",
         data |-> <<assetItems>>] >>

\* 6. Notes to Financial Statements; an absent data field is <<>>, a present
\* one is <<data>>; the content texts are left out
Notes(revenueItems, assetItems) ==
  LET IsCash(a) == IsCashAccount(a.label)
      IsNotCash(a) == ~IsCashAccount(a.label)
  IN << [noteNumber |-> 1, title |-> "Basis of Preparation", data |-> <<>>],
        [noteNumber |-> 2, title |-> "Revenue Recognition", data |-> <<revenueItems>>],
        [noteNumber |-> 3, title |-> "Cash and Cash Equivalents",
         data |-> <<SelectSeq(assetItems, IsCash)>>],
        [noteNumber |-> 4, title |-> "Property, Plant and Equipment",
         data |-> <<SelectSeq(assetItems, IsNotCash)>>] >>

\* variant: no earnings row
BalanceSheetEquity_NoEarnings(rawEquityItems, netInc) == rawEquityItems

\* const balanceSheetEquity = [...rawEquityItems, { label: 'Current Period Earnings', amount: netInc }]
BalanceSheetEquity(rawEquityItems, netInc) ==
  Append(rawEquityItems, StatementItem("Current Period Earnings", netInc))

\* variant: net income left out
NetCashFlow_NoIncome(totalAssets, totalLiabilities, totalEquity, netInc) ==
  totalAssets - totalLiabilities - totalEquity
\* variant: liabilities are added instead of subtracted
NetCashFlow_PlusLiabilities(totalAssets, totalLiabilities, totalEquity, netInc) ==
  totalAssets + totalLiabilities - totalEquity + netInc

\* netCashFlow: totalAssets - totalLiabilities - totalEquity + netInc
NetCashFlow(totalAssets, totalLiabilities, totalEquity, netInc) ==
  totalAssets - totalLiabilities - totalEquity + netInc

calculateStatements(txs) ==
  LET trialBalance == TrialBalance(txs)
      \* 2. Income Statement
      revenueItems == CreditNormalItems(trialBalance, REVENUE)
      expenseItems == DebitNormalItems(trialBalance, EXPENSE)
      totalRev == SumAmounts(revenueItems)
      totalExp == SumAmounts(expenseItems)
      netInc == totalRev - totalExp
      \* 3. Balance Sheet
      assetItems == DebitNormalItems(trialBalance, ASSET)
      liabilityItems == CreditNormalItems(trialBalance, LIABILITY)
      rawEquityItems == CreditNormalItems(trialBalance, EQUITY)
      balanceSheetEquity == BalanceSheetEquity(rawEquityItems, netInc)
      totalAssets == SumAmounts(assetItems)
      totalLiabilities == SumAmounts(liabilityItems)
      totalEquity == SumAmounts(balanceSheetEquity)
      cf == CashFlowBuckets(txs)
  IN [trialBalance |-> trialBalance,
      incomeStatement |-> [revenue |-> revenueItems, expenses |-> expenseItems,
                           totalRevenue |-> totalRev, totalExpenses |-> totalExp,
                           netIncome |-> netInc],
      balanceSheet |-> [assets |-> assetItems, liabilities |-> liabilityItems,
                        equity |-> balanceSheetEquity, totalAssets |-> totalAssets,
                        totalLiabilities |-> totalLiabilities, totalEquity |-> totalEquity],
      cashFlow |-> [operating |-> cf.op, investing |-> cf.inv, financing |-> cf.fin,
                    netCashFlow |-> NetCashFlow(totalAssets, totalLiabilities, totalEquity, netInc)],
      equityChanges |-> EquityChanges(rawEquityItems, netInc),
      notes |-> Notes(revenueItems, assetItems),
      variance |-> [revenueActual |-> totalRev, revenueBudget |-> RevenueBudget,
                    expenseActual |-> totalExp, expenseBudget |-> ExpenseBudget]]

\* const statements = calculateStatements(transactions)
CalculateStatements ==
  /\ pc = "statements-call"
  /\ statements' = calculateStatements(transactions)
  /\ pc' = "returned"
  /\ UNCHANGED <<reconVars, transactions, trendData, tz, callVars, appVars>>

----------------------------------------------------------------------------
(* performBankReconciliation *)

\* variant: the amount without its sign
BookAmount_Unsigned(book) == book.amount

\* const bookAmount = book.type === DEBIT ? book.amount : -book.amount
BookAmount(book) == IF book.type = DEBIT THEN book.amount ELSE 0 - book.amount
\* variant: a consumed id does not bar an entry from matching
FindPredicate_Reusable(st, book, consumed) ==
  st.date = book.date /\ st.amount = BookAmount(book)

\* the predicate handed to statementEntries.find
FindPredicate(st, book, consumed) ==
  /\ st.date = book.date
  /\ st.amount = BookAmount(book)
  /\ st.id \notin consumed

\* variant: the last hit wins
RECURSIVE FindFrom_Last(_, _, _, _)
FindFrom_Last(sts, i, book, consumed) ==
  IF i > Len(sts) THEN 0
  ELSE LET later == FindFrom_Last(sts, i + 1, book, consumed) IN
         IF later # 0 THEN later
         ELSE IF FindPredicate(sts[i], book, consumed) THEN i
         ELSE 0

\* variant: the first unconsumed entry of the date is taken, then its amount compared
RECURSIVE FindFrom_DateFirst(_, _, _, _)
FindFrom_DateFirst(sts, i, book, consumed) ==
  IF i > Len(sts) THEN 0
  ELSE IF sts[i].date = book.date /\ sts[i].id \notin consumed
    THEN (IF sts[i].amount = BookAmount(book) THEN i ELSE 0)
  ELSE FindFrom_DateFirst(sts, i + 1, book, consumed)

\* Array.prototype.find: scan from index i upwards, first hit wins; 0 = undefined
RECURSIVE FindFrom(_, _, _, _)
FindFrom(sts, i, book, consumed) ==
  IF i > Len(sts) THEN 0
  ELSE IF FindPredicate(sts[i], book, consumed) THEN i
  ELSE FindFrom(sts, i + 1, book, consumed)
\* variant: the search passes over the first statement entry
FindMatch_SkipFirst(sts, book, consumed) == FindFrom(sts, 2, book, consumed)

FindMatch(sts, book, consumed) == FindFrom(sts, 1, book, consumed)

\* variant: an unmatched book entry leaves no record
BookBody_DropUnmatched(ms, consumed, sts, book) ==
  LET m == FindMatch(sts, book, consumed) IN
    IF m # 0
    THEN <<Append(ms, ReconMatch(<<book>>, <<sts[m]>>, "matched")),
           consumed \cup {sts[m].id}>>
    ELSE <<ms, consumed>>

\* variant: the matched id is not marked consumed
BookBody_NoMark(ms, consumed, sts, book) ==
  LET m == FindMatch(sts, book, consumed) IN
    IF m # 0
    THEN <<Append(ms, ReconMatch(<<book>>, <<sts[m]>>, "matched")), consumed>>
    ELSE <<Append(ms, ReconMatch(<<book>>, <<>>, "missing_in_statement")), consumed>>

\* variant: an unmatched book entry is paired with an unconsumed entry of its date
BookBody_Mismatch(ms, consumed, sts, book) ==
  LET m == FindMatch(sts, book, consumed)
      sameDate == {j \in 1..Len(sts) : sts[j].date = book.date /\ sts[j].id \notin consumed}
  IN IF m # 0
     THEN <<Append(ms, ReconMatch(<<book>>, <<sts[m]>>, "matched")),
            consumed \cup {sts[m].id}>>
     ELSE IF sameDate # {}
     THEN LET j == CHOOSE j \in sameDate : \A j2 \in sameDate : j <= j2 IN
            <<Append(ms, ReconMatch(<<book>>, <<sts[j]>>, "amount_mismatch")),
              consumed \cup {sts[j].id}>>
     ELSE <<Append(ms, ReconMatch(<<book>>, <<>>, "missing_in_statement")), consumed>>

\* body of bookEntries.forEach: the pair <<matches, matchedStatementIds>> after one book entry
BookBody(ms, consumed, sts, book) ==
  LET m == FindMatch(sts, book, consumed) IN
    IF m # 0
    THEN <<Append(ms, ReconMatch(<<book>>, <<sts[m]>>, "matched")),
           consumed \cup {sts[m].id}>>
    ELSE <<Append(ms, ReconMatch(<<book>>, <<>>, "missing_in_statement")), consumed>>

\* variant: every statement entry is reported, consumed or not
StatementBody_EmitAll(ms, consumed, st) ==
  Append(ms, ReconMatch(<<>>, <<st>>, "missing_in_book"))

\* variant: the report of an unconsumed entry is put first
StatementBody_Prepend(ms, consumed, st) ==
  IF st.id \notin consumed
  THEN <<ReconMatch(<<>>, <<st>>, "missing_in_book")>> \o ms
  ELSE ms

\* body of statementEntries.forEach
StatementBody(ms, consumed, st) ==
  IF st.id \notin consumed
  THEN Append(ms, ReconMatch(<<>>, <<st>>, "missing_in_book"))
  ELSE ms

\* One iteration of bookEntries.forEach
BookStep ==
  /\ pc = "books"
  /\ bi < Len(bookEntries)
  /\ LET r == BookBody(matches, matchedStatementIds, statementEntries, bookEntries[bi + 1]) IN
       /\ matches' = r[1]
       /\ matchedStatementIds' = r[2]
  /\ bi' = bi + 1
  /\ UNCHANGED <<pc, bookEntries, statementEntries, si, ledgerVars, callVars, appVars>>

\* bookEntries.forEach is over; statementEntries.forEach begins
BooksDone ==
  /\ pc = "books"
  /\ bi = Len(bookEntries)
  /\ pc' = "statements"
  /\ UNCHANGED <<reconVars, ledgerVars, callVars, appVars>>

\* One iteration of statementEntries.forEach
StatementStep ==
  /\ pc = "statements"
  /\ si < Len(statementEntries)
  /\ matches' = StatementBody(matches, matchedStatementIds, statementEntries[si + 1])
  /\ si' = si + 1
  /\ UNCHANGED <<pc, bookEntries, statementEntries, matchedStatementIds, bi, ledgerVars, callVars, appVars>>

\* return matches
ReconReturn ==
  /\ pc = "statements"
  /\ si = Len(statementEntries)
  /\ pc' = "returned"
  /\ UNCHANGED <<reconVars, ledgerVars, callVars, appVars>>

\* the whole function as a fold of the two loop bodies
RECURSIVE BookLoop(_, _, _, _, _)
BookLoop(ms, consumed, sts, books, i) ==
  IF i > Len(books) THEN <<ms, consumed>>
  ELSE LET r == BookBody(ms, consumed, sts, books[i]) IN
         BookLoop(r[1], r[2], sts, books, i + 1)

RECURSIVE StatementLoop(_, _, _, _)
StatementLoop(ms, consumed, sts, i) ==
  IF i > Len(sts) THEN ms
  ELSE StatementLoop(StatementBody(ms, consumed, sts[i]), consumed, sts, i + 1)

performBankReconciliation(books, sts) ==
  LET r == BookLoop(<<>>, {}, sts, books, 1) IN
    StatementLoop(r[1], r[2], sts, 1)

----------------------------------------------------------------------------
(* getTrendData *)

\* const months = ['Jan', ..., 'Dec']
months == <<"Jan", "Feb", "Mar", "Apr", "May", "Jun", "Jul", "Aug", "Sep", "Oct", "Nov", "Dec">>

\* getMonth() of an Invalid Date is NaN; no month index is negative
NaN == -1
Undefined == "undefined"

\* new Date(s) for the date strings of the explored ledgers.  A date-only ISO
\* string denotes midnight UTC of that day; a string that is no date gives an
\* Invalid Date.  month is 0-based as in Date.
ParseDate(s) ==
  CASE s = "2023-10-01" -> [valid |-> TRUE, year |-> 2023, month |-> 9, day |-> 1]
    [] s = "2024-10-15" -> [valid |-> TRUE, year |-> 2024, month |-> 9, day |-> 15]
    [] s = "2023-01-01" -> [valid |-> TRUE, year |-> 2023, month |-> 0, day |-> 1]
    [] s = "2023-10-05" -> [valid |-> TRUE, year |-> 2023, month |-> 9, day |-> 5]
    [] s = "2023-10-10" -> [valid |-> TRUE, year |-> 2023, month |-> 9, day |-> 10]
    [] s = "2023-10-15" -> [valid |-> TRUE, year |-> 2023, month |-> 9, day |-> 15]
    [] s = "2023-10-20" -> [valid |-> TRUE, year |-> 2023, month |-> 9, day |-> 20]
    [] s = "2023-09-10" -> [valid |-> TRUE, year |-> 2023, month |-> 8, day |-> 10]
    [] s = "2023-09-15" -> [valid |-> TRUE, year |-> 2023, month |-> 8, day |-> 15]
    [] s = "2023-11-02" -> [valid |-> TRUE, year |-> 2023, month |-> 10, day |-> 2]
    [] OTHER -> [valid |-> FALSE, year |-> 0, month |-> 0, day |-> 0]

\* new Date(s).getMonth(): the month of the instant on the local clock, which
\* is zone hours ahead of UTC.  West of UTC midnight UTC is still the evening
\* of the day before.
GetMonth(s, zone) ==
  LET d == ParseDate(s) IN
    IF ~d.valid THEN NaN
    ELSE IF zone < 0 /\ d.day = 1 THEN (d.month + 11) % 12
    ELSE d.month

\* months[monthIndex]
MonthLabel(monthIndex) == IF monthIndex = NaN THEN Undefined ELSE months[monthIndex + 1]

EmptyBucket == [revenue |-> 0, expense |-> 0, profit |-> 0]

\* body of transactions.forEach: dataMap after one transaction; the Map is a
\* function from its keys to their values
TrendStep(dataMap, tx, zone) ==
  LET monthLabel == MonthLabel(GetMonth(tx.date, zone))
      current == IF monthLabel \in DOMAIN dataMap THEN dataMap[monthLabel] ELSE EmptyBucket
      revenue == IF tx.category = REVENUE THEN current.revenue + tx.amount ELSE current.revenue
      expense == IF tx.category # REVENUE /\ tx.category = EXPENSE
                 THEN current.expense + tx.amount ELSE current.expense
      updated == [revenue |-> revenue, expense |-> expense, profit |-> revenue - expense]
  IN [k \in DOMAIN dataMap \cup {monthLabel} |-> IF k = monthLabel THEN updated ELSE dataMap[k]]

RECURSIVE TrendLoop(_, _, _, _)
TrendLoop(dataMap, txs, i, zone) ==
  IF i > Len(txs) THEN dataMap
  ELSE TrendLoop(TrendStep(dataMap, txs[i], zone), txs, i + 1, zone)

\* variant: only the months that have a bucket
TrendRows_SeenOnly(dataMap) ==
  LET Seen(m) == m \in DOMAIN dataMap
      seen == SelectSeq(months, Seen)
  IN [i \in 1..Len(seen) |->
        [month |-> seen[i], revenue |-> dataMap[seen[i]].revenue,
         expense |-> dataMap[seen[i]].expense, profit |-> dataMap[seen[i]].profit]]

\* months.map(m => ({ month: m, ...dataMap.get(m) || { revenue: 0, expense: 0, profit: 0 } }))
TrendRows(dataMap) ==
  [i \in 1..Len(months) |->
     LET m == months[i]
         b == IF m \in DOMAIN dataMap THEN dataMap[m] ELSE EmptyBucket
     IN [month |-> m, revenue |-> b.revenue, expense |-> b.expense, profit |-> b.profit]]

getTrendData(txs, zone) == TrendRows(TrendLoop(<<>>, txs, 1, zone))

\* const trendData = getTrendData(transactions)
GetTrendData ==
  /\ pc = "trend-call"
  /\ trendData' = getTrendData(transactions, tz)
  /\ pc' = "returned"
  /\ UNCHANGED <<reconVars, transactions, statements, tz, callVars, appVars>>

----------------------------------------------------------------------------
(* Inputs of performBankReconciliation: book entries are transactions of   *)
(* the account 'Cash' (App: bankTransactions) with unique ids; statement   *)
(* entries carry the unique ids st1, st2, ... of their source.             *)

BookChoice == [date : ReconDates, amount : ReconAmounts, type : TransactionType]
BookList(f) ==
  [i \in DOMAIN f |-> Transaction(ToString(i), f[i].date, "Book", "Cash", ASSET,
                                  f[i].amount, f[i].type)]

SignedAmounts == ReconAmounts \cup {0 - a : a \in ReconAmounts}
StatementChoice == [date : ReconDates, amount : SignedAmounts]
StatementList(f) ==
  [i \in DOMAIN f |-> BankStatementItem("st" \o ToString(i), f[i].date, f[i].amount)]

InitRecon ==
  /\ pc = "books"
  /\ \E n \in 0..MaxBook : \E f \in [1..n -> BookChoice] : bookEntries = BookList(f)
  /\ \E n \in 0..MaxSt : \E f \in [1..n -> StatementChoice] : statementEntries = StatementList(f)
  /\ matches = <<>>
  /\ matchedStatementIds = {}
  /\ bi = 0
  /\ si = 0
  /\ transactions = <<>>
  /\ statements = <<>>
  /\ trendData = <<>>
  /\ tz = 0
  /\ callee = "performBankReconciliation"
  /\ FirstCall
  /\ AppIdle

NextRecon == BookStep \/ BooksDone \/ StatementStep \/ ReconReturn

SpecRecon == InitRecon /\ [][NextRecon]_vars

----------------------------------------------------------------------------
(* Vocabulary of the reconciliation claims, read off the returned records *)

Returned == pc = "returned"

\* signed amount of a book entry as the specification words it
SignedAmount(book) == IF book.type = "Debit" THEN book.amount ELSE -(book.amount)

UniqueStatementIds ==
  \A i, j \in 1..Len(statementEntries) :
    statementEntries[i].id = statementEntries[j].id => i = j

\* positions of the records of ms that carry statement entry st
RecordsOfStatement(ms, st) == {k \in 1..Len(ms) : ms[k].statementEntry = <<st>>}
RecordsOfBook(ms, book) == {k \in 1..Len(ms) : ms[k].bookEntry = <<book>>}

\* statement positions that are in a 'matched' record among the first n records of ms
MatchedIn(ms, sts, n) ==
  {j \in 1..Len(sts) :
     \E k \in 1..n : ms[k].status = "matched" /\ ms[k].statementEntry = <<sts[j]>>}

Unconsumed(ms, sts) == (1..Len(sts)) \ MatchedIn(ms, sts, Len(ms))

CountStatus(ms, status) == Cardinality({k \in 1..Len(ms) : ms[k].status = status})

SameKey(book, st) == st.date = book.date /\ st.amount = SignedAmount(book)

\* C2: the number of returned records is the number of book entries plus the
\* number of statement entries that no match consumed.
C2_RecordCount ==
  (Returned /\ UniqueStatementIds) =>
    Len(matches) = Len(bookEntries) + Cardinality(Unconsumed(matches, statementEntries))

C2_Witness ==
  /\ Returned
  /\ CountStatus(matches, "matched") >= 1
  /\ CountStatus(matches, "missing_in_statement") >= 1
  /\ CountStatus(matches, "missing_in_book") >= 1

\* C3: every book entry is in exactly one record, whose status is 'matched' or
\* 'missing_in_statement'; these records are the first |book entries| records,
\* in the input order of the book entries.
C3_BookRecords ==
  Returned =>
    /\ Len(matches) >= Len(bookEntries)
    /\ \A i \in 1..Len(bookEntries) :
         /\ matches[i].bookEntry = <<bookEntries[i]>>
         /\ matches[i].status \in {"matched", "missing_in_statement"}
         /\ RecordsOfBook(matches, bookEntries[i]) = {i}
    /\ \A k \in (Len(bookEntries) + 1)..Len(matches) : matches[k].bookEntry = <<>>

C3_Witness ==
  /\ Returned
  /\ Len(bookEntries) = 2
  /\ matches[1].status = "missing_in_statement"
  /\ matches[2].status = "matched"
  /\ Len(matches) > Len(bookEntries)

\* the unconsumed statement entries, in statement order
UnconsumedSeq(ms, sts) ==
  LET u == Unconsumed(ms, sts)
      Keep(s) == \E j \in u : sts[j] = s
  IN SelectSeq(sts, Keep)

\* C4: with unique statement ids, every statement entry no book entry consumed
\* is in exactly one record, of status 'missing_in_book' and without bookEntry,
\* and these records follow the book records in statement order.
C4_MissingInBook ==
  (Returned /\ UniqueStatementIds) =>
    LET u == UnconsumedSeq(matches, statementEntries)
        n == Len(bookEntries)
    IN /\ Len(matches) = n + Len(u)
       /\ \A k \in 1..Len(u) :
            /\ matches[n + k] = ReconMatch(<<>>, <<u[k]>>, "missing_in_book")
            /\ RecordsOfStatement(matches, u[k]) = {n + k}

C4_Witness ==
  /\ Returned
  /\ Len(bookEntries) >= 1
  /\ Cardinality(Unconsumed(matches, statementEntries)) >= 2
  /\ CountStatus(matches, "matched") >= 1
  /\ \E j \in Unconsumed(matches, statementEntries) :
       j > 1 /\ (j - 1) \notin Unconsumed(matches, statementEntries)

\* statement positions book entry i may still take: same date, same signed
\* amount, not in the 'matched' record of an earlier book entry
Candidates(ms, books, sts, i) ==
  {j \in 1..Len(sts) : SameKey(books[i], sts[j])} \ MatchedIn(ms, sts, i - 1)

\* C5: the statement entry matched to a book entry is the earliest one in
\* statement order with the same date and signed amount that no earlier book
\* entry consumed; the book entry is 'missing_in_statement' exactly when there
\* is none.
C5_FirstMatchWins ==
  (Returned /\ UniqueStatementIds) =>
    \A i \in 1..Len(bookEntries) :
      LET c == Candidates(matches, bookEntries, statementEntries, i) IN
        /\ (c = {}) <=> (matches[i].status = "missing_in_statement")
        /\ c = {} => matches[i].statementEntry = <<>>
        /\ c # {} =>
             /\ matches[i].status = "matched"
             /\ \E j \in c : /\ \A j2 \in c : j <= j2
                             /\ matches[i].statementEntry = <<statementEntries[j]>>

C5_Witness ==
  /\ Returned
  /\ Len(bookEntries) = 2
  /\ Len(statementEntries) = 3
  /\ SameKey(bookEntries[1], statementEntries[2])
  /\ SameKey(bookEntries[2], statementEntries[2])
  /\ SameKey(bookEntries[1], statementEntries[3])
  /\ ~SameKey(bookEntries[1], statementEntries[1])
  /\ matches[2].statementEntry = <<statementEntries[3]>>

ListPermutations(n) ==
  {p \in [1..n -> 1..n] : \A i, j \in 1..n : p[i] = p[j] => i = j}

Permuted(sts, p) == [i \in 1..Len(sts) |-> sts[p[i]]]

\* (date, amount) of the statement entry of a record; <<>> if it has none
StatementKey(m) ==
  IF m.statementEntry = <<>> THEN <<>>
  ELSE <<m.statementEntry[1].date, m.statementEntry[1].amount>>

\* C6: permuting a unique-id statement list changes none of the three counts;
\* every book entry keeps its status and the (date, amount) of its statement
\* entry, only the matched record within a (date, amount) group may differ.
C6_CountStable ==
  (Returned /\ UniqueStatementIds) =>
    \A p \in ListPermutations(Len(statementEntries)) :
      LET other == performBankReconciliation(bookEntries, Permuted(statementEntries, p)) IN
        /\ \A s \in {"matched", "missing_in_statement", "missing_in_book"} :
             CountStatus(other, s) = CountStatus(matches, s)
        /\ \A i \in 1..Len(bookEntries) :
             /\ other[i].status = matches[i].status
             /\ StatementKey(other[i]) = StatementKey(matches[i])

\* a permutation changes which record is matched
C6_Witness ==
  /\ Returned
  /\ Len(statementEntries) = 3
  /\ CountStatus(matches, "missing_in_book") = 2
  /\ \E p \in ListPermutations(Len(statementEntries)) :
       LET other == performBankReconciliation(bookEntries, Permuted(statementEntries, p)) IN
         \E i \in 1..Len(bookEntries) :
           /\ matches[i].status = "matched"
           /\ other[i].statementEntry # matches[i].statementEntry

\* C7: a matched statement entry's id is marked consumed, and with unique ids
\* no statement entry is in more than one returned record.
C7_ConsumedOnce ==
  /\ \A k \in 1..Len(matches) :
       matches[k].status = "matched" => matches[k].statementEntry[1].id \in matchedStatementIds
  /\ (Returned /\ UniqueStatementIds) =>
       \A j \in 1..Len(statementEntries) :
         Cardinality(RecordsOfStatement(matches, statementEntries[j])) <= 1

C7_Witness ==
  /\ Returned
  /\ Len(bookEntries) = 2
  /\ Len(statementEntries) >= 2
  /\ SameKey(bookEntries[1], statementEntries[1])
  /\ SameKey(bookEntries[2], statementEntries[1])
  /\ matches[1].status = "matched"
  /\ matches[2].status = "missing_in_statement"

\* C8: no record has status 'amount_mismatch'; one book entry and one statement
\* entry of the same date and different signed amounts give one
\* 'missing_in_statement' record and one 'missing_in_book' record.
C8_NoAmountMismatch ==
  /\ \A k \in 1..Len(matches) : matches[k].status # "amount_mismatch"
  /\ (/\ Returned
      /\ Len(bookEntries) = 1
      /\ Len(statementEntries) = 1
      /\ statementEntries[1].date = bookEntries[1].date
      /\ statementEntries[1].amount # SignedAmount(bookEntries[1]))
     => matches = << ReconMatch(<<bookEntries[1]>>, <<>>, "missing_in_statement"),
                     ReconMatch(<<>>, <<statementEntries[1]>>, "missing_in_book") >>

C8_Witness ==
  /\ Returned
  /\ Len(bookEntries) = 1
  /\ Len(statementEntries) = 1
  /\ statementEntries[1].date = bookEntries[1].date
  /\ statementEntries[1].amount = -(SignedAmount(bookEntries[1]))
  /\ Len(matches) = 2

\* The matcher the specification proposes: statement positions indexed by
\* (date, signed amount), each key's positions consumed first in, first out.
IndexKeys(sts) == {<<sts[j].date, sts[j].amount>> : j \in 1..Len(sts)}

StatementIndex(sts) ==
  [key \in IndexKeys(sts) |->
     LET Holds(j) == <<sts[j].date, sts[j].amount>> = key
     IN SelectSeq([j \in 1..Len(sts) |-> j], Holds)]

RECURSIVE IndexedBooks(_, _, _, _, _, _)
IndexedBooks(ms, index, taken, sts, books, i) ==
  IF i > Len(books) THEN <<ms, taken>>
  ELSE LET key == <<books[i].date, SignedAmount(books[i])>> IN
         IF key \in DOMAIN index /\ index[key] # <<>>
         THEN LET j == Head(index[key]) IN
                IndexedBooks(Append(ms, ReconMatch(<<books[i]>>, <<sts[j]>>, "matched")),
                             [index EXCEPT ![key] = Tail(index[key])],
                             taken \cup {j}, sts, books, i + 1)
         ELSE IndexedBooks(Append(ms, ReconMatch(<<books[i]>>, <<>>, "missing_in_statement")),
                           index, taken, sts, books, i + 1)

IndexedReconciliation(books, sts) ==
  LET r == IndexedBooks(<<>>, StatementIndex(sts), {}, sts, books, 1)
      Rest(j) == j \notin r[2]
      rest == SelectSeq([j \in 1..Len(sts) |-> j], Rest)
  IN r[1] \o [k \in 1..Len(rest) |-> ReconMatch(<<>>, <<sts[rest[k]]>>, "missing_in_book")]

\* C9: for unique-id statement lists the linear scan returns the very sequence
\* of records of the matcher that indexes statement entries by (date, signed
\* amount) and consumes each key first in, first out.
C9_IndexEquivalent ==
  (Returned /\ UniqueStatementIds) =>
    matches = IndexedReconciliation(bookEntries, statementEntries)

C9_Witness ==
  /\ Returned
  /\ Len(bookEntries) = 2
  /\ Len(statementEntries) = 3
  /\ SameKey(bookEntries[1], statementEntries[1])
  /\ SameKey(bookEntries[1], statementEntries[3])
  /\ SameKey(bookEntries[2], statementEntries[3])
  /\ ~SameKey(bookEntries[1], statementEntries[2])
  /\ matches[2].statementEntry = <<statementEntries[3]>>
  /\ matches[3].status = "missing_in_book"

\* C28: with unique statement ids the result never holds both a
\* 'missing_in_statement' record and a 'missing_in_book' record whose book
\* entry and statement entry have the same date and the same signed amount.
C28_MaximalMatching ==
  (Returned /\ UniqueStatementIds) =>
    \A i, j \in 1..Len(matches) :
      ~ /\ matches[i].status = "missing_in_statement"
        /\ matches[j].status = "missing_in_book"
        /\ SameKey(matches[i].bookEntry[1], matches[j].statementEntry[1])

\* a book entry is left over although a statement entry has its date and
\* amount (an earlier book entry took it), and another statement entry is
\* left over too
C28_Witness ==
  /\ Returned
  /\ UniqueStatementIds
  /\ \E i, j, k \in 1..Len(matches) :
       /\ matches[i].status = "missing_in_statement"
       /\ matches[j].status = "matched"
       /\ SameKey(matches[i].bookEntry[1], matches[j].statementEntry[1])
       /\ matches[k].status = "missing_in_book"

----------------------------------------------------------------------------
(* Statement lists that violate the unique-id precondition: the ids are      *)
(* drawn from a set smaller than the list.                                   *)

MaxDupBook == 2
MaxDupSt == 2

StatementIds == {"st1", "st2"}
DupStatementChoice == [id : StatementIds, date : ReconDates, amount : SignedAmounts]
DupStatementList(f) ==
  [i \in DOMAIN f |-> BankStatementItem(f[i].id, f[i].date, f[i].amount)]

InitDuplicateIds ==
  /\ pc = "books"
  /\ \E n \in 0..MaxDupBook : \E f \in [1..n -> BookChoice] : bookEntries = BookList(f)
  /\ \E n \in 0..MaxDupSt : \E f \in [1..n -> DupStatementChoice] :
       statementEntries = DupStatementList(f)
  /\ matches = <<>>
  /\ matchedStatementIds = {}
  /\ bi = 0
  /\ si = 0
  /\ transactions = <<>>
  /\ statements = <<>>
  /\ trendData = <<>>
  /\ tz = 0
  /\ callee = "performBankReconciliation"
  /\ FirstCall
  /\ AppIdle

SpecDuplicateIds == InitDuplicateIds /\ [][NextRecon]_vars

\* the ids of the statement entries in a 'matched' record
MatchedIds(ms) ==
  {ms[k].statementEntry[1].id : k \in {n \in 1..Len(ms) : ms[n].status = "matched"}}

\* the records that carry a statement entry of the id
RecordsWithId(ms, id) ==
  {k \in 1..Len(ms) : ms[k].statementEntry # <<>> /\ ms[k].statementEntry[1].id = id}

\* the statement entries of the id
EntriesWithId(sts, id) == {j \in 1..Len(sts) : sts[j].id = id}

\* C29: on a statement list with a repeated id the function returns as usual,
\* with one record per book entry; once an entry of an id is matched, the
\* other entries of that id are neither matched nor reported as
\* 'missing_in_book' (the one matched record is the only record of the id),
\* and the record count falls below |book entries| + |statement entries not
\* in a matched record|.
C29_DuplicateIdsDropped ==
  Returned =>
    /\ \A b \in 1..Len(bookEntries) : Cardinality(RecordsOfBook(matches, bookEntries[b])) = 1
    /\ \A id \in MatchedIds(matches) : Cardinality(RecordsWithId(matches, id)) = 1
    /\ (\E id \in MatchedIds(matches) : Cardinality(EntriesWithId(statementEntries, id)) > 1)
         => Len(matches) < Len(bookEntries)
                             + (Len(statementEntries) - CountStatus(matches, "matched"))

\* a book entry is reported missing although an unmatched statement entry
\* has its date and amount: that entry shares its id with a matched one
C29_Witness ==
  /\ Returned
  /\ ~UniqueStatementIds
  /\ \E i, k \in 1..Len(matches) : \E j \in 1..Len(statementEntries) :
       /\ matches[i].status = "matched"
       /\ statementEntries[j].id = matches[i].statementEntry[1].id
       /\ statementEntries[j] # matches[i].statementEntry[1]
       /\ matches[k].status = "missing_in_statement"
       /\ SameKey(matches[k].bookEntry[1], statementEntries[j])

----------------------------------------------------------------------------
(* Inputs of calculateStatements: ledgers over a small chart of accounts in  *)
(* which the account 'Cash' occurs with two categories.                      *)

Account(accountName, category) == [accountName |-> accountName, category |-> category]

Chart ==
  { Account("Cash", ASSET), Account("Cash", EQUITY), Account("Bank Fees", EXPENSE),
    Account("Equipment", ASSET), Account("Loan Payable", LIABILITY),
    Account("Common Stock", EQUITY), Account("Sales Revenue", REVENUE) }

LedgerAmounts == {25000, 50000}
LedgerChoice == [account : Chart, amount : LedgerAmounts, type : TransactionType]

Ledger(f) ==
  [i \in DOMAIN f |-> Transaction(ToString(i), "2023-10-01", "Entry " \o ToString(i),
                                  f[i].account.accountName, f[i].account.category,
                                  f[i].amount, f[i].type)]

\* the first three debit/credit pairs of sampleTransactions
PairedLedger ==
  << Transaction("1", "2023-10-01", "Initial Capital", "Cash", ASSET, 50000, DEBIT),
     Transaction("2", "2023-10-01", "Initial Capital", "Common Stock", EQUITY, 50000, CREDIT),
     Transaction("3", "2023-10-05", "Monthly Rent", "Rent Expense", EXPENSE, 2000, DEBIT),
     Transaction("4", "2023-10-05", "Monthly Rent", "Cash", ASSET, 2000, CREDIT),
     Transaction("5", "2023-10-10", "Product Sale", "Cash", ASSET, 12000, DEBIT),
     Transaction("6", "2023-10-10", "Product Sale", "Sales Revenue", REVENUE, 12000, CREDIT) >>

InitStatements ==
  /\ pc = "statements-call"
  /\ \/ \E n \in 0..MaxTx : \E f \in [1..n -> LedgerChoice] : transactions = Ledger(f)
     \/ transactions = PairedLedger
  /\ statements = <<>>
  /\ trendData = <<>>
  /\ tz = 0
  /\ bookEntries = <<>>
  /\ statementEntries = <<>>
  /\ matches = <<>>
  /\ matchedStatementIds = {}
  /\ bi = 0
  /\ si = 0
  /\ callee = "calculateStatements"
  /\ FirstCall
  /\ AppIdle

NextStatements == CalculateStatements

SpecStatements == InitStatements /\ [][NextStatements]_vars

----------------------------------------------------------------------------
(* Vocabulary of the statement claims *)

\* sum of the amounts of the transactions of one type
RECURSIVE TypeTotal(_, _)
TypeTotal(txs, type) ==
  IF txs = <<>> THEN 0
  ELSE (IF Head(txs).type = type THEN Head(txs).amount ELSE 0) + TypeTotal(Tail(txs), type)

BalancedLedger(txs) == TypeTotal(txs, "Debit") = TypeTotal(txs, "Credit")

ConflictingCategories(txs) ==
  \E i, j \in 1..Len(txs) :
    txs[i].accountName = txs[j].accountName /\ txs[i].category # txs[j].category

\* C1: for a ledger whose Debit amounts and Credit amounts have the same sum,
\* total assets equal total liabilities plus total equity, the equity rows
\* ending with the 'Current Period Earnings' row.
C1_BalanceSheetBalances ==
  (Returned /\ BalancedLedger(transactions)) =>
    LET bs == statements.balanceSheet IN
      /\ bs.totalAssets = bs.totalLiabilities + bs.totalEquity
      /\ bs.equity[Len(bs.equity)].label = "Current Period Earnings"
      /\ bs.totalEquity = SumAmounts(bs.equity)

C1_Witness ==
  /\ Returned
  /\ Len(transactions) = 3
  /\ BalancedLedger(transactions)
  /\ ConflictingCategories(transactions)
  /\ statements.incomeStatement.netIncome # 0
  /\ statements.balanceSheet.totalAssets # 0

\* position of the first transaction of an account; 0 if there is none
FirstOccurrence(txs, name) ==
  LET hits == {i \in 1..Len(txs) : txs[i].accountName = name} IN
    IF hits = {} THEN 0 ELSE CHOOSE i \in hits : \A j \in hits : i <= j

\* sum of the amounts of the transactions of one account and one type
RECURSIVE AccountTotal(_, _, _)
AccountTotal(txs, name, type) ==
  IF txs = <<>> THEN 0
  ELSE (IF Head(txs).accountName = name /\ Head(txs).type = type THEN Head(txs).amount ELSE 0)
       + AccountTotal(Tail(txs), name, type)

NamesOf(rows) == {rows[k].accountName : k \in 1..Len(rows)}

\* C13: the trial balance has one row per distinct accountName, in order of
\* first occurrence; a row has the category of the account's first transaction
\* and the sums of the account's Debit and Credit amounts.
C13_TrialBalanceRows ==
  Returned =>
    LET tb == statements.trialBalance IN
      /\ NamesOf(tb) = NamesOf(transactions)
      /\ Len(tb) = Cardinality(NamesOf(transactions))
      /\ \A k, l \in 1..Len(tb) :
           k < l => FirstOccurrence(transactions, tb[k].accountName)
                      < FirstOccurrence(transactions, tb[l].accountName)
      /\ \A k \in 1..Len(tb) :
           /\ tb[k].category =
                transactions[FirstOccurrence(transactions, tb[k].accountName)].category
           /\ tb[k].debit = AccountTotal(transactions, tb[k].accountName, "Debit")
           /\ tb[k].credit = AccountTotal(transactions, tb[k].accountName, "Credit")

\* an account whose later transaction names another category, after another account
C13_Witness ==
  /\ Returned
  /\ Len(transactions) = 3
  /\ Len(statements.trialBalance) = 2
  /\ transactions[1].accountName = transactions[3].accountName
  /\ transactions[1].category # transactions[3].category
  /\ transactions[1].type # transactions[3].type
  /\ statements.trialBalance[1].category = transactions[1].category

\* Inputs for the comparison of a ledger with its permutations: ledgers over
\* two accounts, one of them with two categories
OrderChart == { Account("Cash", ASSET), Account("Cash", EQUITY), Account("Sales Revenue", REVENUE) }
OrderChoice == [account : OrderChart, amount : LedgerAmounts, type : TransactionType]

InitOrder ==
  /\ pc = "statements-call"
  /\ \E n \in 0..MaxOrderTx : \E f \in [1..n -> OrderChoice] : transactions = Ledger(f)
  /\ statements = <<>>
  /\ trendData = <<>>
  /\ tz = 0
  /\ bookEntries = <<>>
  /\ statementEntries = <<>>
  /\ matches = <<>>
  /\ matchedStatementIds = {}
  /\ bi = 0
  /\ si = 0
  /\ callee = "calculateStatements"
  /\ FirstCall
  /\ AppIdle

SpecOrder == InitOrder /\ [][NextStatements]_vars

\* the row of an account in a trial balance, as the pair of its totals
TotalsOf(tb, name) ==
  LET k == CHOOSE k \in 1..Len(tb) : tb[k].accountName = name IN <<tb[k].debit, tb[k].credit>>

\* C14: every permutation of the transaction list gives a trial balance with
\* the same accountNames and the same debit and credit total for each.
C14_OrderFreeTotals ==
  Returned =>
    \A p \in ListPermutations(Len(transactions)) :
      LET other == TrialBalance(Permuted(transactions, p)) IN
        /\ NamesOf(other) = NamesOf(statements.trialBalance)
        /\ Len(other) = Len(statements.trialBalance)
        /\ \A name \in NamesOf(other) :
             TotalsOf(other, name) = TotalsOf(statements.trialBalance, name)

\* a permutation that changes the order of the rows and a category
C14_Witness ==
  /\ Returned
  /\ Len(transactions) = 3
  /\ \E p \in ListPermutations(3) :
       LET other == TrialBalance(Permuted(transactions, p)) IN
         /\ Len(other) = 2
         /\ other[1].accountName # statements.trialBalance[1].accountName
         /\ \E k, l \in 1..2 : /\ other[k].accountName = statements.trialBalance[l].accountName
                               /\ other[k].category # statements.trialBalance[l].category

\* the trial-balance rows of one category, in trial-balance order
RowsWith(tb, category) ==
  LET Is(row) == row.category = category IN SelectSeq(tb, Is)

\* sum of credit - debit over rows
RECURSIVE CreditBalance(_)
CreditBalance(rows) ==
  IF rows = <<>> THEN 0
  ELSE Head(rows).credit - Head(rows).debit + CreditBalance(Tail(rows))

\* the statement rows of the rows of one category; sign = 1 for credit - debit,
\* sign = -1 for debit - credit
ExpectedItems(tb, category, sign) ==
  LET rows == RowsWith(tb, category) IN
    [k \in 1..Len(rows) |->
       [label |-> rows[k].accountName, amount |-> sign * (rows[k].credit - rows[k].debit)]]

\* C15: netIncome = totalRevenue - totalExpenses, totalRevenue summing credit -
\* debit over the Revenue rows and totalExpenses debit - credit over the Expense
\* rows; asset rows are debit - credit, liability and raw equity rows credit -
\* debit.  The three-pair ledger has netIncome 10000, totalAssets 60000 and
\* totalEquity 60000.
C15_IncomeAndSigns ==
  Returned =>
    LET tb == statements.trialBalance
        is == statements.incomeStatement
        bs == statements.balanceSheet
    IN /\ is.totalRevenue = CreditBalance(RowsWith(tb, "Revenue"))
       /\ is.totalExpenses = -(CreditBalance(RowsWith(tb, "Expense")))
       /\ is.netIncome = is.totalRevenue - is.totalExpenses
       /\ is.revenue = ExpectedItems(tb, "Revenue", 1)
       /\ is.expenses = ExpectedItems(tb, "Expense", -1)
       /\ bs.assets = ExpectedItems(tb, "Asset", -1)
       /\ bs.liabilities = ExpectedItems(tb, "Liability", 1)
       /\ SubSeq(bs.equity, 1, Len(bs.equity) - 1) = ExpectedItems(tb, "Equity", 1)
       /\ transactions = PairedLedger =>
            /\ is.netIncome = 10000
            /\ bs.totalAssets = 60000
            /\ bs.totalEquity = 60000

C15_Witness ==
  /\ Returned
  /\ transactions = PairedLedger
  /\ statements.incomeStatement.totalRevenue = 12000
  /\ statements.incomeStatement.totalExpenses = 2000

\* a ledger with a liability row, an equity row and a revenue row
C15_WitnessRows ==
  /\ Returned
  /\ statements.balanceSheet.liabilities # <<>>
  /\ Len(statements.balanceSheet.equity) = 2
  /\ statements.incomeStatement.revenue # <<>>

RECURSIVE RowTotal(_, _)
RowTotal(tb, type) ==
  IF tb = <<>> THEN 0
  ELSE (IF type = "Debit" THEN Head(tb).debit ELSE Head(tb).credit) + RowTotal(Tail(tb), type)

\* C16: the equity rows of the balance sheet are the raw Equity rows followed
\* by one last row 'Current Period Earnings' of amount netIncome, totalEquity
\* sums them all, and the trial balance holds only the accounts and totals of
\* the input transactions.
C16_EarningsRow ==
  Returned =>
    LET tb == statements.trialBalance
        bs == statements.balanceSheet
        raw == ExpectedItems(tb, "Equity", 1)
    IN /\ bs.equity = raw \o << [label |-> "Current Period Earnings",
                                 amount |-> statements.incomeStatement.netIncome] >>
       /\ bs.totalEquity = CreditBalance(RowsWith(tb, "Equity"))
                             + statements.incomeStatement.netIncome
       /\ NamesOf(tb) = NamesOf(transactions)
       /\ RowTotal(tb, "Debit") = TypeTotal(transactions, "Debit")
       /\ RowTotal(tb, "Credit") = TypeTotal(transactions, "Credit")

C16_Witness ==
  /\ Returned
  /\ Len(statements.balanceSheet.equity) = 2
  /\ statements.incomeStatement.netIncome > 0
  /\ statements.balanceSheet.equity[1].amount > 0
  /\ statements.balanceSheet.equity[2].label = "Current Period Earnings"

\* C17: the roll-forward row of a raw equity row of amount a has
\* closingBalance a, netIncome 0, withdrawals 0, and opening balance and
\* additions (50000, a - 50000) if a > 50000, else (0, a); an amount of exactly
\* 50000 gives opening balance 0 and additions 50000.
C17_RollForwardRow ==
  Returned =>
    LET raw == ExpectedItems(statements.trialBalance, "Equity", 1)
        ec == statements.equityChanges
    IN /\ Len(ec) > Len(raw)
       /\ \A k \in 1..Len(raw) :
            LET a == raw[k].amount IN
              /\ ec[k].closingBalance = a
              /\ ec[k].netIncome = 0
              /\ ec[k].withdrawals = 0
              /\ a > 50000 => ec[k].openingBalance = 50000 /\ ec[k].additions = a - 50000
              /\ a <= 50000 => ec[k].openingBalance = 0 /\ ec[k].additions = a
              /\ a = 50000 => ec[k].openingBalance = 0 /\ ec[k].additions = 50000

\* one equity account of exactly 50000 and one above it
C17_Witness ==
  /\ Returned
  /\ Len(statements.equityChanges) = 3
  /\ statements.equityChanges[1].closingBalance = 50000
  /\ statements.equityChanges[1].additions = 50000
  /\ statements.equityChanges[2].closingBalance > 50000
  /\ statements.equityChanges[2].openingBalance = 50000

\* C18: equityChanges has one row per Equity account of the trial balance, in
\* trial-balance order, then one last row 'Retained Earnings' with opening
\* balance, additions and withdrawals 0 and netIncome = closingBalance = the
\* net income; the 'Current Period Earnings' row has no row of its own.
C18_RetainedEarnings ==
  Returned =>
    LET rows == RowsWith(statements.trialBalance, "Equity")
        ec == statements.equityChanges
        ni == statements.incomeStatement.netIncome
    IN /\ Len(ec) = Len(rows) + 1
       /\ \A k \in 1..Len(rows) : ec[k].accountName = rows[k].accountName
       /\ ec[Len(ec)] = [accountName |-> "Retained Earnings", openingBalance |-> 0,
                         additions |-> 0, netIncome |-> ni, withdrawals |-> 0,
                         closingBalance |-> ni]
       /\ \A k \in 1..Len(ec) : ec[k].accountName # "Current Period Earnings"

C18_Witness ==
  /\ Returned
  /\ Len(statements.equityChanges) = 3
  /\ statements.equityChanges[1].accountName # statements.equityChanges[2].accountName
  /\ statements.equityChanges[3].netIncome # 0

RECURSIVE ItemTotal(_)
ItemTotal(items) == IF items = <<>> THEN 0 ELSE Head(items).amount + ItemTotal(Tail(items))

BucketTotal(cashFlow) ==
  ItemTotal(cashFlow.operating) + ItemTotal(cashFlow.investing) + ItemTotal(cashFlow.financing)

\* C20: netCashFlow = totalAssets - totalLiabilities - totalEquity + netIncome,
\* totalEquity including the earnings row; the figure comes from these four
\* totals, not from the three buckets.
C20_NetCashFlowIdentity ==
  Returned =>
    LET bs == statements.balanceSheet IN
      /\ statements.cashFlow.netCashFlow =
           bs.totalAssets - bs.totalLiabilities - bs.totalEquity
             + statements.incomeStatement.netIncome
      /\ bs.totalEquity = ItemTotal(bs.equity)
      /\ bs.equity[Len(bs.equity)].label = "Current Period Earnings"

\* the figure differs from the sum of the buckets
C20_Witness ==
  /\ Returned
  /\ statements.incomeStatement.netIncome # 0
  /\ statements.cashFlow.netCashFlow # 0
  /\ BucketTotal(statements.cashFlow) # 0
  /\ statements.cashFlow.netCashFlow # BucketTotal(statements.cashFlow)

\* the account names of the explored ledgers that contain 'Cash', 'Bank' or
\* 'Petty Cash'
CashNamed(name) == name \in {"Cash", "Bank Fees"}

\* the buckets (1 operating, 2 investing, 3 financing) that hold the item of
\* transaction tx
BucketsHolding(cashFlow, tx) ==
  LET item == [label |-> tx.description, amount |-> SignedAmount(tx)]
      Holds(bucket) == \E k \in 1..Len(bucket) : bucket[k] = item
  IN {b \in 1..3 : Holds(<<cashFlow.operating, cashFlow.investing, cashFlow.financing>>[b])}

\* C19: every transaction of an account whose name contains a cash-account
\* substring is in exactly one of the three buckets, with its signed amount:
\* operating for Revenue or Expense, financing for Liability or Equity,
\* investing for an Asset of an account that is no cash account.
C19_OneBucketEach ==
  Returned =>
    \A i \in 1..Len(transactions) :
      LET tx == transactions[i]
          in == BucketsHolding(statements.cashFlow, tx)
      IN CashNamed(tx.accountName) =>
           /\ Cardinality(in) = 1
           /\ tx.category \in {"Revenue", "Expense"} => in = {1}
           /\ tx.category \in {"Liability", "Equity"} => in = {3}

\* the rows of items whose label is a cash-account name, in their order
RECURSIVE CashRows(_)
CashRows(items) ==
  IF items = <<>> THEN <<>>
  ELSE IF CashNamed(Head(items).label) THEN <<Head(items)>> \o CashRows(Tail(items))
  ELSE CashRows(Tail(items))

\* the rows of items that are not in CashRows(items), in their order
RECURSIVE OtherRows(_)
OtherRows(items) ==
  IF items = <<>> THEN <<>>
  ELSE IF CashNamed(Head(items).label) THEN OtherRows(Tail(items))
  ELSE <<Head(items)>> \o OtherRows(Tail(items))

\* the number of rows of items equal to row
Occurrences(items, row) == Cardinality({k \in 1..Len(items) : items[k] = row})

\* C21: four notes numbered 1, 2, 3, 4 in that order; note 1 has no data,
\* note 2 carries the revenue rows, note 3 the asset rows with a cash-account
\* label, note 4 the other asset rows, so that every asset row is in exactly
\* one of notes 3 and 4.
C21_FourNotes ==
  Returned =>
    LET notes == statements.notes
        assets == statements.balanceSheet.assets
    IN /\ Len(notes) = 4
       /\ \A n \in 1..4 : notes[n].noteNumber = n
       /\ notes[1].data = <<>>
       /\ notes[2].data = <<statements.incomeStatement.revenue>>
       /\ notes[3].data = <<CashRows(assets)>>
       /\ notes[4].data = <<OtherRows(assets)>>
       /\ \A k \in 1..Len(assets) :
            Occurrences(notes[3].data[1], assets[k])
              + Occurrences(notes[4].data[1], assets[k]) = 1

\* assets of both kinds and revenue are reported
C21_Witness ==
  /\ Returned
  /\ statements.notes[2].data[1] # <<>>
  /\ statements.notes[3].data[1] # <<>>
  /\ statements.notes[4].data[1] # <<>>

\* the sum of the closing balances of the roll-forward rows
RECURSIVE ClosingTotal(_)
ClosingTotal(rows) ==
  IF rows = <<>> THEN 0 ELSE Head(rows).closingBalance + ClosingTotal(Tail(rows))

\* C25: the closing balances of the equityChanges rows add up to
\* balanceSheet.totalEquity, and every row has closingBalance =
\* openingBalance + additions + netIncome - withdrawals.
C25_EquityRollForwardTies ==
  Returned =>
    /\ ClosingTotal(statements.equityChanges) = statements.balanceSheet.totalEquity
    /\ \A k \in 1..Len(statements.equityChanges) :
         LET row == statements.equityChanges[k] IN
           row.closingBalance =
             row.openingBalance + row.additions + row.netIncome - row.withdrawals

\* an equity account above the threshold and earnings
C25_Witness ==
  /\ Returned
  /\ statements.incomeStatement.netIncome # 0
  /\ \E k \in 1..Len(statements.equityChanges) :
       statements.equityChanges[k].openingBalance = EquityThreshold

\* two equity accounts, one above the threshold and one at or below it
C25_WitnessBelow ==
  /\ Returned
  /\ \E k \in 1..Len(statements.equityChanges) :
       statements.equityChanges[k].openingBalance = EquityThreshold
  /\ \E k \in 1..Len(statements.equityChanges) :
       /\ statements.equityChanges[k].accountName # "Retained Earnings"
       /\ statements.equityChanges[k].openingBalance = 0
       /\ statements.equityChanges[k].additions # 0

\* C26: netCashFlow - netIncome is the amount by which the balance sheet is
\* out of balance, totalAssets - totalLiabilities - totalEquity; for a ledger
\* whose Debit amounts sum to its Credit amounts netCashFlow equals netIncome.
C26_NetCashFlowIsNetIncome ==
  Returned =>
    LET bs == statements.balanceSheet
        netCashFlow == statements.cashFlow.netCashFlow
        netIncome == statements.incomeStatement.netIncome
    IN /\ netCashFlow - netIncome = bs.totalAssets - bs.totalLiabilities - bs.totalEquity
       /\ BalancedLedger(transactions) => netCashFlow = netIncome

\* a balanced ledger with liabilities, earnings and no cash-flow item at all
C26_Witness ==
  /\ Returned
  /\ BalancedLedger(transactions)
  /\ statements.incomeStatement.netIncome # 0
  /\ statements.balanceSheet.totalLiabilities # 0
  /\ BucketTotal(statements.cashFlow) # statements.cashFlow.netCashFlow

\* an unbalanced ledger: the figure is not the net income
C26_WitnessUnbalanced ==
  /\ Returned
  /\ ~BalancedLedger(transactions)
  /\ statements.cashFlow.netCashFlow # statements.incomeStatement.netIncome

\* C27: cashFlow.investing is empty, and a transaction of a cash account whose
\* own category is Asset is in none of the three buckets.
C27_InvestingEmpty ==
  Returned =>
    /\ statements.cashFlow.investing = <<>>
    /\ \A i \in 1..Len(transactions) :
         (CashNamed(transactions[i].accountName) /\ transactions[i].category = "Asset")
           => BucketsHolding(statements.cashFlow, transactions[i]) = {}

\* a cash Asset transaction next to cash transactions that are classified
C27_Witness ==
  /\ Returned
  /\ \E i \in 1..Len(transactions) :
       transactions[i].accountName = "Cash" /\ transactions[i].category = "Asset"
  /\ statements.cashFlow.operating # <<>>
  /\ statements.cashFlow.financing # <<>>

----------------------------------------------------------------------------
(* Inputs of getTrendData: dated revenue, expense and asset transactions,   *)
(* among them dates of two years, first days of a month and a string that   *)
(* is no date; the host's clock is west of, at, or east of UTC.             *)

TrendDates == {"2023-10-01", "2024-10-15", "2023-01-01", "N/A"}
TrendAccounts ==
  { Account("Sales Revenue", REVENUE), Account("Bank Fees", EXPENSE), Account("Cash", ASSET) }
TrendAmounts == {100, 250}
TrendChoice == [date : TrendDates, account : TrendAccounts, amount : TrendAmounts]
TimeZones == {-5, 0, 9}

TrendLedger(f) ==
  [i \in DOMAIN f |-> Transaction(ToString(i), f[i].date, "Entry " \o ToString(i),
                                  f[i].account.accountName, f[i].account.category,
                                  f[i].amount,
                                  IF f[i].account.category = REVENUE THEN CREDIT ELSE DEBIT)]

InitTrend ==
  /\ pc = "trend-call"
  /\ \E n \in 0..MaxTrendTx : \E f \in [1..n -> TrendChoice] : transactions = TrendLedger(f)
  /\ tz \in TimeZones
  /\ statements = <<>>
  /\ trendData = <<>>
  /\ bookEntries = <<>>
  /\ statementEntries = <<>>
  /\ matches = <<>>
  /\ matchedStatementIds = {}
  /\ bi = 0
  /\ si = 0
  /\ callee = "getTrendData"
  /\ FirstCall
  /\ AppIdle

NextTrend == GetTrendData

SpecTrend == InitTrend /\ [][NextTrend]_vars

----------------------------------------------------------------------------
(* Vocabulary of the trend claims *)

CalendarMonths ==
  <<"Jan", "Feb", "Mar", "Apr", "May", "Jun", "Jul", "Aug", "Sep", "Oct", "Nov", "Dec">>

YearsOf(txs) ==
  {ParseDate(txs[i].date).year : i \in {j \in 1..Len(txs) : ParseDate(txs[j].date).valid}}

\* C10: for every transaction list getTrendData returns exactly twelve entries,
\* labelled with the months January to December in calendar order.
C10_TwelveMonths ==
  Returned =>
    /\ Len(trendData) = 12
    /\ \A i \in 1..12 : trendData[i].month = CalendarMonths[i]

C10_Witness ==
  /\ Returned
  /\ Len(trendData) = 12
  /\ Cardinality(YearsOf(transactions)) = 2
  /\ \E i \in 1..Len(transactions) : ~ParseDate(transactions[i].date).valid
  /\ trendData[10].revenue > 0

\* the empty list also yields the twelve months
C10_WitnessEmpty ==
  /\ Returned
  /\ transactions = <<>>
  /\ Len(trendData) = 12

\* the calendar month (1..12) written in a date string; 0 if it is no date
WrittenMonth(date) == IF ParseDate(date).valid THEN ParseDate(date).month + 1 ELSE 0

\* sum of the amounts of the transactions of txs of one category; month = 0
\* takes all of them, month in 1..12 those whose date has that month written
RECURSIVE CategoryTotal(_, _, _)
CategoryTotal(txs, category, month) ==
  IF txs = <<>> THEN 0
  ELSE (IF /\ Head(txs).category = category
           /\ (month = 0 \/ WrittenMonth(Head(txs).date) = month)
        THEN Head(txs).amount ELSE 0)
       + CategoryTotal(Tail(txs), category, month)

RECURSIVE RevenueSum(_)
RevenueSum(rows) ==
  IF rows = <<>> THEN 0 ELSE Head(rows).revenue + RevenueSum(Tail(rows))

AllDatesValid(txs) == \A i \in 1..Len(txs) : ParseDate(txs[i].date).valid

\* C11: the revenue fields of the twelve entries sum to the amounts of all
\* Revenue transactions of the input, whatever their date strings.
C11_RevenueConserved ==
  Returned => RevenueSum(trendData) = CategoryTotal(transactions, "Revenue", 0)

\* C12: every Revenue or Expense amount is in the bucket of the month written
\* in its date, whatever the year and also on the first day of a month, and
\* every bucket has profit = revenue - expense.
C12_WrittenMonthBucket ==
  (Returned /\ AllDatesValid(transactions)) =>
    \A m \in 1..12 :
      /\ trendData[m].revenue = CategoryTotal(transactions, "Revenue", m)
      /\ trendData[m].expense = CategoryTotal(transactions, "Expense", m)
      /\ trendData[m].profit = trendData[m].revenue - trendData[m].expense

----------------------------------------------------------------------------
(* Repeated invocation: a caller invokes the same function again with the    *)
(* arguments it passed before (App: a render whose useMemo dependency is a   *)
(* new array with the same entries).                                         *)

MaxCalls == 2
MaxRepeatBook == 2
MaxRepeatSt == 2
MaxRepeatTx == 2

\* what the function under execution has returned
Output ==
  CASE callee = "performBankReconciliation" -> matches
    [] callee = "calculateStatements" -> statements
    [] callee = "getTrendData" -> trendData

\* variant: the consumed-id set is kept across invocations
Invoke_KeepConsumed ==
  /\ pc = "returned"
  /\ calls < MaxCalls
  /\ calls' = calls + 1
  /\ previous' = <<Output>>
  /\ pc' = CASE callee = "performBankReconciliation" -> "books"
             [] callee = "calculateStatements" -> "statements-call"
             [] callee = "getTrendData" -> "trend-call"
  /\ matches' = <<>>
  /\ bi' = 0
  /\ si' = 0
  /\ UNCHANGED <<bookEntries, statementEntries, matchedStatementIds, ledgerVars,
                 callee, appVars>>

\* entry of the next invocation: the parameters are bound to the same
\* arguments; performBankReconciliation creates its matches array and its
\* matchedStatementIds set anew
Invoke ==
  /\ pc = "returned"
  /\ calls < MaxCalls
  /\ calls' = calls + 1
  /\ previous' = <<Output>>
  /\ pc' = CASE callee = "performBankReconciliation" -> "books"
             [] callee = "calculateStatements" -> "statements-call"
             [] callee = "getTrendData" -> "trend-call"
  /\ matches' = <<>>
  /\ matchedStatementIds' = {}
  /\ bi' = 0
  /\ si' = 0
  /\ UNCHANGED <<bookEntries, statementEntries, ledgerVars, callee, appVars>>

InitRepeat ==
  /\ \/ /\ pc = "books"
        /\ callee = "performBankReconciliation"
        /\ \E n \in 0..MaxRepeatBook : \E f \in [1..n -> BookChoice] :
             bookEntries = BookList(f)
        /\ \E n \in 0..MaxRepeatSt : \E f \in [1..n -> StatementChoice] :
             statementEntries = StatementList(f)
        /\ transactions = <<>>
        /\ tz = 0
     \/ /\ pc = "statements-call"
        /\ callee = "calculateStatements"
        /\ \E n \in 0..MaxRepeatTx : \E f \in [1..n -> LedgerChoice] :
             transactions = Ledger(f)
        /\ bookEntries = <<>>
        /\ statementEntries = <<>>
        /\ tz = 0
     \/ /\ pc = "trend-call"
        /\ callee = "getTrendData"
        /\ \E n \in 0..MaxRepeatTx : \E f \in [1..n -> TrendChoice] :
             transactions = TrendLedger(f)
        /\ bookEntries = <<>>
        /\ statementEntries = <<>>
        /\ tz \in TimeZones
  /\ matches = <<>>
  /\ matchedStatementIds = {}
  /\ bi = 0
  /\ si = 0
  /\ statements = <<>>
  /\ trendData = <<>>
  /\ FirstCall
  /\ AppIdle

NextRepeat == NextRecon \/ NextStatements \/ NextTrend \/ Invoke

SpecRepeat == InitRepeat /\ [][NextRepeat]_vars

\* C22: the three functions leave their input lists and the entries in them
\* unchanged, and an invocation repeated on the same inputs returns what the
\* invocation before it returned (the consumed-id set starts empty each time).
C22_PureFunctions ==
  /\ [][/\ bookEntries' = bookEntries
        /\ statementEntries' = statementEntries
        /\ transactions' = transactions]_vars
  /\ [](Returned /\ calls > 1 => previous = <<Output>>)

\* a reconciliation with a matched record has returned a second time, and so
\* have statements with rows and a trend with amounts
C22_Witness ==
  /\ Returned
  /\ calls > 1
  /\ callee = "performBankReconciliation"
  /\ CountStatus(matches, "matched") > 0

C22_WitnessStatements ==
  /\ Returned
  /\ calls > 1
  /\ callee = "calculateStatements"
  /\ Len(statements.trialBalance) = 2

----------------------------------------------------------------------------
(* App: the import of ledger rows (processRawData, the mapping select,       *)
(* finalizeImport, resetImport) and the render that follows a state change.  *)
(* A handler and the render React runs after it are one step: the render's   *)
(* useMemo values are the only statements, trend and records ever shown.     *)

MaxImported == 2
MaxImportRows == 1

sampleTransactions ==
  PairedLedger \o
  << Transaction("7", "2023-10-15", "Office Equipment", "Equipment", ASSET, 5000, DEBIT),
     Transaction("8", "2023-10-15", "Office Equipment", "Cash", ASSET, 5000, CREDIT),
     Transaction("9", "2023-10-20", "Employee Salaries", "Payroll Expense", EXPENSE, 4500, DEBIT),
     Transaction("10", "2023-10-20", "Employee Salaries", "Cash", ASSET, 4500, CREDIT),
     Transaction("11", "2023-09-10", "Prior Sale", "Sales Revenue", REVENUE, 40000, CREDIT),
     Transaction("12", "2023-09-15", "Prior Rent", "Rent Expense", EXPENSE, 2000, DEBIT) >>

sampleBankStatement ==
  << BankStatementItem("st1", "2023-10-01", 50000),
     BankStatementItem("st2", "2023-10-05", 0 - 2000),
     BankStatementItem("st3", "2023-10-10", 12000),
     BankStatementItem("st4", "2023-10-15", 0 - 5000),
     BankStatementItem("st5", "2023-10-22", 0 - 25) >>

\* the keys of REQUIRED_FIELDS
REQUIRED_FIELDS == <<"date", "description", "accountName", "category", "amount", "type">>

\* h.toLowerCase().includes(key.toLowerCase()) || h.toLowerCase().includes(label.toLowerCase())
\* over the headers of the explored sheets: each names its field by the key,
\* 'kind' names none
HeaderMatches(h, key) == h = key

\* headers.find(h => ...): the first matching header, none is <<>>
RECURSIVE FindHeader(_, _, _)
FindHeader(headers, i, key) ==
  IF i > Len(headers) THEN <<>>
  ELSE IF HeaderMatches(headers[i], key) THEN <<headers[i]>>
  ELSE FindHeader(headers, i + 1, key)

\* initialMappings: a key is set only if a header matches
InitialMappings(headers) ==
  LET mapped == {k \in 1..Len(REQUIRED_FIELDS) :
                   FindHeader(headers, 1, REQUIRED_FIELDS[k]) # <<>>}
      keys == {REQUIRED_FIELDS[k] : k \in mapped}
  IN [key \in keys |-> FindHeader(headers, 1, key)[1]]

\* csvHeaders.indexOf(h), 0-based, -1 if absent
IndexOf(headers, h) ==
  IF \E i \in 1..Len(headers) : headers[i] = h
    THEN (CHOOSE i \in 1..Len(headers) :
            headers[i] = h /\ \A j \in 1..(i - 1) : headers[j] # h) - 1
    ELSE 0 - 1

\* String(getVal(fieldKey)): the cell of the mapped column; a cell that does
\* not exist is undefined
GetVal(row, headers, maps, fieldKey) ==
  IF fieldKey \notin DOMAIN maps THEN Undefined
  ELSE LET idx == IndexOf(headers, maps[fieldKey]) IN
         IF idx + 1 \in 1..Len(row) THEN row[idx + 1] ELSE Undefined

\* parseFloat(text.replace(/[^0-9.-]+/g, "")): NaN is <<>>
ParseAmount(text) ==
  CASE text = "2000" -> <<2000>>
    [] text = "$2,000" -> <<2000>>
    [] text = "-300" -> <<0 - 300>>
    [] OTHER -> <<>>

\* text.toLowerCase().includes('credit')
IncludesCredit(text) == text \in {"Credit", "credit", "CREDIT", "Credit Note"}

\* the body of csvRows.map in finalizeImport; idx is 0-based
ImportedTransaction(row, idx, headers, maps, now) ==
  LET amount == ParseAmount(GetVal(row, headers, maps, "amount"))
  IN Transaction("new-" \o ToString(idx) \o "-" \o ToString(now),
                 GetVal(row, headers, maps, "date"),
                 GetVal(row, headers, maps, "description"),
                 GetVal(row, headers, maps, "accountName"),
                 GetVal(row, headers, maps, "category"),
                 IF amount = <<>> THEN 0 ELSE amount[1],
                 IF IncludesCredit(GetVal(row, headers, maps, "type")) THEN CREDIT ELSE DEBIT)

NewTransactions(rows, headers, maps, now) ==
  [i \in 1..Len(rows) |-> ImportedTransaction(rows[i], i - 1, headers, maps, now)]

\* variant: the imported rows replace the list
AppendedTransactions_Replace(txs, newTransactions) == newTransactions

\* [...transactions, ...newTransactions]
AppendedTransactions(txs, newTransactions) == txs \o newTransactions

\* transactions.filter(t => t.accountName === 'Cash')
BankTransactions(txs) ==
  LET IsCash(t) == t.accountName = "Cash" IN SelectSeq(txs, IsCash)

\* the values the render computes: useMemo statements, trendData,
\* bankTransactions and reconMatches, all of the same transactions
Rendered(txs, zone) ==
  [statements |-> calculateStatements(txs),
   trendData |-> getTrendData(txs, zone),
   bankTransactions |-> BankTransactions(txs),
   reconMatches |-> performBankReconciliation(BankTransactions(txs), sampleBankStatement)]

\* the sheets a user uploads or pastes: a header row and the rows under it
HeaderRows ==
  { REQUIRED_FIELDS, <<"date", "description", "accountName", "kind", "amount", "type">> }

RawRow ==
  { [accountName |-> "Cash", category |-> "Asset", amount |-> "2000", type |-> "debit"],
    [accountName |-> "Sales Revenue", category |-> "Revenue", amount |-> "$2,000",
     type |-> "Credit"],
    [accountName |-> "Sales Revenue", category |-> "Income", amount |-> "2000",
     type |-> "Credit"],
    [accountName |-> "Cash", category |-> "Asset", amount |-> "abc", type |-> "CR"] }

SheetRows(f) ==
  [i \in DOMAIN f |-> <<"2023-11-02", "Imported", f[i].accountName, f[i].category,
                        f[i].amount, f[i].type>>]

\* the columns a user points the 'category' select at
MappingChoices == {"kind", "type"}

\* the clock readings of Date.now()
Clock == {1700000000}

\* processRawData(rows), called by handleFileUpload and handleTextImport
ProcessRawData ==
  /\ pc = "app"
  /\ csvHeaders = <<>>
  /\ \E headers \in HeaderRows :
       \E n \in 0..MaxImportRows : \E f \in [1..n -> RawRow] :
         /\ Len(transactions) + n <= Len(sampleTransactions) + MaxImported
         /\ csvHeaders' = headers
         /\ csvRows' = SheetRows(f)
         /\ mappings' = InitialMappings(headers)
  /\ UNCHANGED <<pc, reconVars, ledgerVars, callVars, isAnalyzing, aiAnalysis, requests>>

\* onChange of a mapping select: setMappings({ ...mappings, [field.key]: e.target.value })
SetMapping ==
  /\ pc = "app"
  /\ csvHeaders # <<>>
  /\ \E header \in MappingChoices :
       /\ \E i \in 1..Len(csvHeaders) : csvHeaders[i] = header
       /\ mappings' = [key \in DOMAIN mappings \cup {"category"} |->
                         IF key = "category" THEN header ELSE mappings[key]]
  /\ UNCHANGED <<pc, reconVars, ledgerVars, callVars, csvHeaders, csvRows,
                 isAnalyzing, aiAnalysis, requests>>

\* finalizeImport, from the button that is disabled while a required field
\* is unmapped, then resetImport and the render of the new list
FinalizeImport ==
  /\ pc = "app"
  /\ csvHeaders # <<>>
  /\ \A k \in 1..Len(REQUIRED_FIELDS) : REQUIRED_FIELDS[k] \in DOMAIN mappings
  /\ \E now \in Clock :
       LET newTransactions == NewTransactions(csvRows, csvHeaders, mappings, now)
           txs == AppendedTransactions(transactions, newTransactions)
           r == Rendered(txs, tz)
       IN /\ transactions' = txs
          /\ statements' = r.statements
          /\ trendData' = r.trendData
          /\ bookEntries' = r.bankTransactions
          /\ matches' = r.reconMatches
  /\ csvHeaders' = <<>>
  /\ csvRows' = <<>>
  /\ mappings' = <<>>
  /\ UNCHANGED <<pc, statementEntries, matchedStatementIds, bi, si, tz, callVars,
                 isAnalyzing, aiAnalysis, requests>>

\* resetImport, from the close and abort buttons of the import dialog
ResetImport ==
  /\ pc = "app"
  /\ csvHeaders # <<>>
  /\ csvHeaders' = <<>>
  /\ csvRows' = <<>>
  /\ mappings' = <<>>
  /\ UNCHANGED <<pc, reconVars, ledgerVars, callVars, isAnalyzing, aiAnalysis, requests>>

\* the first render of App
InitApp ==
  /\ pc = "app"
  /\ callee = "App"
  /\ calls = 0
  /\ previous = <<>>
  /\ AppIdle
  /\ tz = 0
  /\ transactions = sampleTransactions
  /\ statements = Rendered(sampleTransactions, tz).statements
  /\ trendData = Rendered(sampleTransactions, tz).trendData
  /\ bookEntries = Rendered(sampleTransactions, tz).bankTransactions
  /\ matches = Rendered(sampleTransactions, tz).reconMatches
  /\ statementEntries = sampleBankStatement
  /\ matchedStatementIds = {}
  /\ bi = 0
  /\ si = 0

NextImport == ProcessRawData \/ SetMapping \/ FinalizeImport \/ ResetImport

SpecImport == InitApp /\ [][NextImport]_vars

\* xs is an initial segment of ys
IsPrefix(xs, ys) == Len(xs) <= Len(ys) /\ SubSeq(ys, 1, Len(xs)) = xs

\* the transactions a commit has appended
Imported(txs) == SubSeq(txs, Len(sampleTransactions) + 1, Len(txs))

\* C23: the transaction list is the initial list followed by the imported
\* rows in commit order (a commit appends one transaction per sheet row, in
\* row order, and no step removes, reorders or modifies a transaction), and
\* the statements, trend series and reconciliation records shown are those of
\* the whole current list.
C23_AppendOnlySnapshot ==
  /\ [](pc = "app" =>
          /\ IsPrefix(sampleTransactions, transactions)
          /\ statements = calculateStatements(transactions)
          /\ trendData = getTrendData(transactions, tz)
          /\ matches = performBankReconciliation(BankTransactions(transactions),
                                                 sampleBankStatement))
  /\ [][pc = "app" =>
          /\ IsPrefix(transactions, transactions')
          /\ transactions' # transactions =>
               /\ Len(transactions') = Len(transactions) + Len(csvRows)
               /\ \A i \in 1..Len(csvRows) :
                    transactions'[Len(transactions) + i].accountName = csvRows[i][3]]_vars

\* two rows of different accounts were committed, the second a cash entry
\* that the reconciliation reports
C23_Witness ==
  /\ pc = "app"
  /\ Len(Imported(transactions)) = 2
  /\ Imported(transactions)[1].accountName = "Sales Revenue"
  /\ Imported(transactions)[2].accountName = "Cash"
  /\ Len(bookEntries) = 6

\* C24: every transaction finalizeImport appends has a numeric amount (0 for
\* a non-numeric cell), a type of Debit or Credit and a category among Asset,
\* Liability, Equity, Revenue, Expense.
C24_ImportValidated ==
  pc = "app" =>
    \A i \in 1..Len(Imported(transactions)) :
      LET tx == Imported(transactions)[i] IN
        /\ tx.amount \in Int
        /\ tx.type \in TransactionType
        /\ tx.category \in AccountCategory

----------------------------------------------------------------------------
(* App: handleGenerateAI and the getFinancialAnalysis request it awaits.     *)
(* The handler runs up to its await in one step and its continuation in      *)
(* another, when the promise settles; requests settle in any order.          *)

MaxRequests == 2

\* what generateContent does: it throws, or it answers with a text, which
\* may be undefined (<<>>) or empty
ServiceOutcomes ==
  { [throws |-> TRUE, text |-> <<>>], [throws |-> FALSE, text |-> <<>>],
    [throws |-> FALSE, text |-> <<"">>], [throws |-> FALSE, text |-> <<"Executive Summary">>] }

\* getFinancialAnalysis: response.text, or the fixed message of the catch
getFinancialAnalysis(outcome) ==
  IF outcome.throws
    THEN <<"Failed to generate AI analysis. Please verify your data and try again.">>
    ELSE outcome.text

\* analysis || "No analysis generated."
AnalysisOrDefault(analysis) ==
  IF analysis = <<>> \/ analysis = <<"">> THEN "No analysis generated." ELSE analysis[1]

\* handleGenerateAI up to the await; the sidebar button is always enabled
HandleGenerateAI ==
  /\ pc = "app"
  /\ calls < MaxRequests
  /\ isAnalyzing' = TRUE
  /\ calls' = calls + 1
  /\ requests' = requests \cup {calls + 1}
  /\ UNCHANGED <<pc, reconVars, ledgerVars, callee, previous, csvHeaders, csvRows,
                 mappings, aiAnalysis>>

\* handleGenerateAI after the await: setAiAnalysis, setIsAnalyzing(false)
AnalysisSettles ==
  /\ pc = "app"
  /\ \E id \in requests : \E outcome \in ServiceOutcomes :
       /\ aiAnalysis' = <<AnalysisOrDefault(getFinancialAnalysis(outcome))>>
       /\ requests' = requests \ {id}
  /\ isAnalyzing' = FALSE
  /\ UNCHANGED <<pc, reconVars, ledgerVars, callVars, csvHeaders, csvRows, mappings>>

NextAnalysis == HandleGenerateAI \/ AnalysisSettles

NextApp == NextImport \/ NextAnalysis

SpecApp == InitApp /\ [][NextApp]_vars

\* C30: isAnalyzing is true while a getFinancialAnalysis request is
\* outstanding, also when handleGenerateAI was invoked again before an earlier
\* request returned; once all requests have completed, isAnalyzing is false
\* and aiAnalysis is a non-empty string.
C30_AnalyzingWhileOutstanding ==
  pc = "app" =>
    /\ requests # {} => isAnalyzing = TRUE
    /\ (calls > 0 /\ requests = {}) =>
         /\ isAnalyzing = FALSE
         /\ aiAnalysis # <<>>
         /\ aiAnalysis[1] # ""

----------------------------------------------------------------------------
(* The whole program: a function of the finance core is invoked, once or    *)
(* again, or the App runs its handlers                                       *)

Init ==
  \/ InitRecon
  \/ InitStatements
  \/ InitOrder
  \/ InitTrend
  \/ InitRepeat
  \/ InitDuplicateIds
  \/ InitApp
Next == NextRecon \/ NextStatements \/ NextTrend \/ Invoke \/ NextApp
Spec == Init /\ [][Next]_vars
====
